---- MODULE Spec2Model ----
(***************************************************************************)
(* ML-KEM (src/src/ml_kem.rs) and its driver (src/src/main.rs).            *)
(*                                                                         *)
(* The MLKEM struct holds a parameter set and an optional DRBG.  Its       *)
(* methods are modelled as actions over the instance (`self`) and the      *)
(* values a caller holds between calls (`held`); `last` records the most   *)
(* recent call with its inputs, its outcome and the PRF nonces it used.    *)
(*                                                                         *)
(* The helpers of crate::utils (hashes, samplers, codec, compressor, NTT)  *)
(* and of the module_lwe / ring_lwe crates are not among the source files; *)
(* they are modelled from the specification of their interface.  The       *)
(* SHA-3 family is replaced by a fixed deterministic byte mixer.           *)
(*                                                                         *)
(* Scaling: the source works with n = 256 coefficients, where a 1-bit      *)
(* encoded polynomial has n/8 = 32 bytes and a 12-bit encoded one          *)
(* 12*n/8 = 384 bytes.  The model keeps the seed length 32, the field      *)
(* width 12 and q = 3329 and scales n to 8 * MsgLen, so "32 * d" of the    *)
(* wire formats reads MsgLen * d and "384" reads PolyBytes12.              *)
(***************************************************************************)
EXTENDS Integers, Sequences, FiniteSets, TLC

VARIABLES self, held, last, cz

vars == <<self, held, last, cz>>

(***************************************************************************)
(* Bounds of the model.                                                    *)
(***************************************************************************)
\* bytes of a 1-bit encoded polynomial, n/8 (32 in the source's n = 256)
MsgLen == 1
\* largest module rank k of the parameter sets explored
MaxK == 2

(***************************************************************************)
(* Parameter set (utils::Parameters).                                      *)
(***************************************************************************)
q == 3329
n == 8 * MsgLen
eta_1 == 3
eta_2 == 2
du == 10
dv == 4
\* a primitive 256-th root of unity modulo q
zeta == 17
\* bytes of a seed (rho, sigma), the output halves of hash_g
SeedLen == 32
\* the literal 384 of _k_pke_encrypt: bytes of one 12-bit encoded polynomial
PolyBytes12 == 12 * MsgLen

Parameters(k) ==
    [k |-> k, n |-> n, q |-> q, eta_1 |-> eta_1, eta_2 |-> eta_2,
     du |-> du, dv |-> dv]

\* Option::None
None == [none |-> TRUE]

(***************************************************************************)
(* Arithmetic helpers.                                                     *)
(***************************************************************************)
Pow2(e) == 2 ^ e

\* b^e mod m by repeated squaring
RECURSIVE ModExp(_, _, _)
ModExp(b, e, m) ==
    IF e = 0 THEN 1 % m
    ELSE LET r == ModExp(b, e \div 2, m)
         IN  IF e % 2 = 0 THEN (r * r) % m ELSE (((r * r) % m) * b) % m

\* the sum of s[lo..hi], halving the range
RECURSIVE SumRange(_, _, _)
SumRange(s, lo, hi) ==
    IF lo > hi THEN 0
    ELSE IF lo = hi THEN s[lo]
    ELSE LET mid == (lo + hi) \div 2
         IN  SumRange(s, lo, mid) + SumRange(s, mid + 1, hi)

SeqSum(s) == SumRange(s, 1, Len(s))

RECURSIVE Flatten(_)
Flatten(ss) == IF ss = <<>> THEN <<>> ELSE Head(ss) \o Flatten(Tail(ss))

Bit(x, i) == (x \div Pow2(i)) % 2

\* the sequence of the values of a function over 1..len
Tuple(f) == f \o <<>>

(***************************************************************************)
(* Seed expansion and hashing (utils::hash_h, hash_g, the XOF and the PRF) *)
(* A deterministic mixer stands for SHA3-256, SHA3-512 and SHAKE: the same *)
(* input always gives the same output, and the output has the length of    *)
(* the hash it stands for.                                                 *)
(***************************************************************************)
\* Absorbing byte b takes the state h to (131 * h + b + 1) mod 32749.
\* MixRange gives, for bytes[lo..hi], the state reached from 0 and the
\* power of 131 by which a starting state is multiplied.
RECURSIVE MixRange(_, _, _)
MixRange(bytes, lo, hi) ==
    IF lo > hi THEN <<0, 1>>
    ELSE IF lo = hi THEN <<(bytes[lo] + 1) % 32749, 131>>
    ELSE LET mid == (lo + hi) \div 2
             a == MixRange(bytes, lo, mid)
             c == MixRange(bytes, mid + 1, hi)
         IN  <<(a[1] * c[2] + c[1]) % 32749, (a[2] * c[2]) % 32749>>

Absorb(h, bytes) ==
    LET mix == MixRange(bytes, 1, Len(bytes))
    IN  (h * mix[2] + mix[1]) % 32749

Squeeze(h, i) == (((h + 17) * (i + 3) + ((i * i) % 251)) \div 7) % 256

hash_h(m) ==
    LET h == Absorb(1, m) IN Tuple([i \in 1..SeedLen |-> Squeeze(h, i)])

hash_g(input) ==
    LET h == Absorb(2, input)
    IN  <<Tuple([i \in 1..SeedLen |-> Squeeze(h, i)]),
          Tuple([i \in 1..SeedLen |-> Squeeze(h, SeedLen + i)])>>

(***************************************************************************)
(* Codec (utils::encode_poly, decode_poly, encode_vector, decode_vector):  *)
(* fixed-width bit fields, least significant bit first, contiguous.        *)
(***************************************************************************)
encode_poly(p, d) ==
    Tuple([j \in 1..((Len(p) * d) \div 8) |->
        SeqSum([b \in 1..8 |->
            LET t == 8 * (j - 1) + (b - 1)
            IN  Bit(p[(t \div d) + 1], t % d) * Pow2(b - 1)])])

\* the d-bit fields of a byte string, unreduced
fields(bytes, d) ==
    Tuple([c \in 1..((Len(bytes) * 8) \div d) |->
        SeqSum([i \in 1..d |->
            LET t == (c - 1) * d + (i - 1)
            IN  Bit(bytes[(t \div 8) + 1], t % 8) * Pow2(i - 1)])])

decode_poly_mod(bytes, d, reduce) ==
    LET f == fields(bytes, d)
    IN  Tuple([c \in DOMAIN f |-> IF reduce THEN f[c] % q ELSE f[c]])

decode_poly(bytes, d) == decode_poly_mod(bytes, d, FALSE)

encode_vector(v, d) == Flatten([i \in DOMAIN v |-> encode_poly(v[i], d)])

decode_vector(bytes, k, d, reduce) ==
    LET w == Len(bytes) \div k
    IN  Tuple([i \in 1..k |->
            decode_poly_mod(SubSeq(bytes, (i - 1) * w + 1, i * w), d, reduce)])

(***************************************************************************)
(* Compressor (utils::compress_poly, compress_vec, decompress_poly).       *)
(***************************************************************************)
\* a faulty compressor that truncates instead of rounding to nearest
compress_truncating(x, d) == ((Pow2(d) * x) \div q) % Pow2(d)

\* round(x * 2^d / q) mod 2^d, rounding half up
compress(x, d) == ((Pow2(d + 1) * x + q) \div (2 * q)) % Pow2(d)

\* round(y * q / 2^d) mod q, rounding half up
decompress(y, d) == ((2 * y * q + Pow2(d)) \div Pow2(d + 1)) % q

compress_poly(p, d) == Tuple([i \in DOMAIN p |-> compress(p[i], d)])
decompress_poly(p, d) == Tuple([i \in DOMAIN p |-> decompress(p[i], d)])
compress_vec(v, d) == Tuple([i \in DOMAIN v |-> compress_poly(v[i], d)])
decompress_vec(v, d) == Tuple([i \in DOMAIN v |-> decompress_poly(v[i], d)])

(***************************************************************************)
(* Matrix expansion (utils::generate_matrix_from_seed): entry (i, j) is    *)
(* rejection-sampled from the XOF stream keyed by rho || j || i, or by     *)
(* rho || i || j when transposed; 12-bit groups >= q are discarded.        *)
(***************************************************************************)
RECURSIVE sample_ntt(_, _, _)
sample_ntt(h, pos, acc) ==
    IF Len(acc) >= n THEN SubSeq(acc, 1, n)
    ELSE LET b0 == Squeeze(h, pos)
             b1 == Squeeze(h, pos + 1)
             b2 == Squeeze(h, pos + 2)
             d1 == b0 + 256 * (b1 % 16)
             d2 == (b1 \div 16) + 16 * b2
         IN  sample_ntt(h, pos + 3,
                 acc \o (IF d1 < q THEN <<d1>> ELSE <<>>)
                     \o (IF d2 < q THEN <<d2>> ELSE <<>>))

generate_matrix_from_seed(rho, k, transposed) ==
    Tuple([i \in 1..k |-> Tuple([j \in 1..k |->
        LET key == IF transposed THEN <<i - 1, j - 1>> ELSE <<j - 1, i - 1>>
        IN  sample_ntt(Absorb(3, rho \o key), 0, <<>>)])])

(***************************************************************************)
(* Error sampler (utils::generate_polynomial, generate_error_vector):      *)
(* one polynomial per nonce, each coefficient the difference of two        *)
(* eta-bit popcounts of PRF(seed, nonce), reduced mod q.  The sampler      *)
(* returns the advanced nonce; `nonces` lists the nonces it consumed.      *)
(***************************************************************************)
cbd(seed, eta, nonce) ==
    LET h == Absorb(4, seed \o <<nonce>>)
        bit(t) == Bit(Squeeze(h, t \div 8), t % 8)
    IN  Tuple([c \in 1..n |->
            LET base == 2 * eta * (c - 1)
                x == SeqSum([j \in 1..eta |-> bit(base + j - 1)])
                y == SeqSum([j \in 1..eta |-> bit(base + eta + j - 1)])
            IN  (x - y) % q])

generate_polynomial(seed, eta, prf_count) ==
    [v |-> cbd(seed, eta, prf_count),
     prf_count |-> prf_count + 1,
     nonces |-> <<prf_count>>]

generate_error_vector(seed, eta, prf_count, k) ==
    [v |-> Tuple([i \in 1..k |-> cbd(seed, eta, prf_count + i - 1)]),
     prf_count |-> prf_count + k,
     nonces |-> Tuple([i \in 1..k |-> prf_count + i - 1])]

(***************************************************************************)
(* Lattice arithmetic (module_lwe::utils, ring_lwe::utils, utils::vec_ntt) *)
(* over Z_q[x] / (x^n + 1), coefficients kept in [0, q).                   *)
(***************************************************************************)
omega == ModExp(zeta, 256 \div n, q)
n_inv == (q - ((q - 1) \div n)) % q

ntt_with(p, w) ==
    LET pw == Tuple([e \in 1..n |-> ModExp(w, e - 1, q)])
    IN  Tuple([i \in 1..n |->
            SeqSum([j \in 1..n |->
                (p[j] * pw[(((i - 1) * (j - 1)) % n) + 1]) % q]) % q])

ntt(p) == ntt_with(p, omega)
from_ntt_poly(p) ==
    LET t == ntt_with(p, ModExp(omega, n - 1, q))
    IN  Tuple([i \in 1..n |-> (t[i] * n_inv) % q])

vec_ntt(v) == Tuple([i \in DOMAIN v |-> ntt(v[i])])
from_ntt(v) == Tuple([i \in DOMAIN v |-> from_ntt_poly(v[i])])

ZeroPoly == Tuple([i \in 1..n |-> 0])

polyadd(a, b) == Tuple([i \in 1..n |-> (a[i] + b[i]) % q])
polysub(a, b) == Tuple([i \in 1..n |-> (a[i] - b[i]) % q])

\* product modulo f = x^n + 1 and q
polymul(a, b) ==
    Tuple([i \in 1..n |->
        SeqSum([j \in 1..n |->
            IF j <= i THEN (a[j] * b[i - j + 1]) % q
            ELSE (q - ((a[j] * b[n + i - j + 1]) % q)) % q]) % q])

RECURSIVE PolySum(_)
PolySum(ps) == IF ps = <<>> THEN ZeroPoly ELSE polyadd(Head(ps), PolySum(Tail(ps)))

add_vec(a, b) == Tuple([i \in DOMAIN a |-> polyadd(a[i], b[i])])
mul_vec_simple(a, b) == PolySum(Tuple([i \in DOMAIN a |-> polymul(a[i], b[i])]))
mul_mat_vec_simple(m, v) == Tuple([i \in DOMAIN m |-> mul_vec_simple(m[i], v)])

(***************************************************************************)
(* Faulty variants of _k_pke_keygen: one forgets to append rho to the      *)
(* encryption key, one lets the DRBG seed of the instance into the seed    *)
(* expansion.                                                              *)
(***************************************************************************)
_k_pke_keygen_without_rho(slf, d) ==
    LET k == slf.params.k
        seeds == hash_g(d \o <<k>>)
        a_hat == generate_matrix_from_seed(seeds[1], k, FALSE)
        s == generate_error_vector(seeds[2], slf.params.eta_1, 0, k)
        e == generate_error_vector(seeds[2], slf.params.eta_1, 0, k)
        s_hat == vec_ntt(s.v)
        t_hat == add_vec(mul_mat_vec_simple(a_hat, s_hat), vec_ntt(e.v))
    IN  [ek |-> encode_vector(t_hat, 12), dk |-> encode_vector(s_hat, 12),
         nonces |-> s.nonces \o e.nonces, starts |-> <<0, 0>>]

_k_pke_keygen_reading_drbg(slf, d) ==
    LET k == slf.params.k
        entropy == IF slf.drbg = None THEN <<>> ELSE slf.drbg.seed
        seeds == hash_g(d \o <<k>> \o entropy)
        a_hat == generate_matrix_from_seed(seeds[1], k, FALSE)
        s == generate_error_vector(seeds[2], slf.params.eta_1, 0, k)
        e == generate_error_vector(seeds[2], slf.params.eta_1, 0, k)
        s_hat == vec_ntt(s.v)
        t_hat == add_vec(mul_mat_vec_simple(a_hat, s_hat), vec_ntt(e.v))
    IN  [ek |-> encode_vector(t_hat, 12) \o seeds[1],
         dk |-> encode_vector(s_hat, 12),
         nonces |-> s.nonces \o e.nonces, starts |-> <<0, 0>>]

(***************************************************************************)
(* MLKEM::_k_pke_keygen.  Returns the key pair together with the PRF       *)
(* nonces its sampling calls consumed and the nonce each call started at.  *)
(***************************************************************************)
_k_pke_keygen(slf, d) ==
    LET k == slf.params.k
        seeds == hash_g(d \o <<k>>)
        rho == seeds[1]
        sigma == seeds[2]
        a_hat == generate_matrix_from_seed(rho, k, FALSE)
        prf_count == 0
        s == generate_error_vector(sigma, slf.params.eta_1, prf_count, k)
        e == generate_error_vector(sigma, slf.params.eta_1, prf_count, k)
        s_hat == vec_ntt(s.v)
        e_hat == vec_ntt(e.v)
        t_hat == add_vec(mul_mat_vec_simple(a_hat, s_hat), e_hat)
        ek_pke == encode_vector(t_hat, 12) \o rho
        dk_pke == encode_vector(s_hat, 12)
    IN  [ek |-> ek_pke, dk |-> dk_pke,
         nonces |-> s.nonces \o e.nonces,
         starts |-> <<prf_count, prf_count>>]

(***************************************************************************)
(* MLKEM::_k_pke_encrypt.  An outcome is a returned value or a panic; a    *)
(* panic carries the message of the check that raised it.                  *)
(***************************************************************************)
TypeCheckFailed == "Type check failed, ek_pke has the wrong length"
ModulusCheckFailed == "Modulus check failed, t_hat does not encode correctly"
SplitOutOfRange == "attempt to subtract with overflow"

Panic(msg) == [tag |-> "panic", msg |-> msg]
Returned(v, nonces, starts) ==
    [tag |-> "returned", value |-> v, nonces |-> nonces, starts |-> starts]

\* the ciphertext computation the source keeps commented out
k_pke_ciphertext(slf, t_hat, a_hat_t, y_hat, e1, e2, m) ==
    LET a_hat_t_dot_y_hat == from_ntt(mul_mat_vec_simple(a_hat_t, y_hat))
        u == add_vec(a_hat_t_dot_y_hat, e1)
        mu == decompress_poly(decode_poly(m, 1), 1)
        t_hat_dot_y_hat == from_ntt_poly(mul_vec_simple(t_hat, y_hat))
        v == polyadd(polyadd(t_hat_dot_y_hat, e2), mu)
        c1 == encode_vector(compress_vec(u, slf.params.du), slf.params.du)
        c2 == encode_poly(compress_poly(v, slf.params.dv), slf.params.dv)
    IN  c1 \o c2

\* Faulty variants of _k_pke_encrypt: one unpacks the key before checking
\* its length, one leaves out the modulus check.
_k_pke_encrypt_split_first(slf, ek_pke, m, r) ==
    LET k == slf.params.k
        y == generate_error_vector(r, slf.params.eta_1, 0, k)
        e1 == generate_error_vector(r, slf.params.eta_2, 0, k)
        e2 == generate_polynomial(r, slf.params.eta_2, 0)
    IN  IF Len(ek_pke) < SeedLen THEN Panic(SplitOutOfRange)
        ELSE IF Len(ek_pke) # PolyBytes12 * k + SeedLen
        THEN Panic(TypeCheckFailed)
        ELSE
        LET t_hat_bytes == SubSeq(ek_pke, 1, Len(ek_pke) - SeedLen)
            t_hat == decode_vector(t_hat_bytes, k, 12, TRUE)
        IN  IF encode_vector(t_hat, 12) # t_hat_bytes
            THEN Panic(ModulusCheckFailed)
            ELSE Returned(m, y.nonces \o e1.nonces \o e2.nonces, <<0, 0, 0>>)

_k_pke_encrypt_without_modulus_check(slf, ek_pke, m, r) ==
    LET k == slf.params.k
        y == generate_error_vector(r, slf.params.eta_1, 0, k)
        e1 == generate_error_vector(r, slf.params.eta_2, 0, k)
        e2 == generate_polynomial(r, slf.params.eta_2, 0)
    IN  IF Len(ek_pke) # PolyBytes12 * k + SeedLen
        THEN Panic(TypeCheckFailed)
        ELSE Returned(m, y.nonces \o e1.nonces \o e2.nonces, <<0, 0, 0>>)

_k_pke_encrypt(slf, ek_pke, m, r) ==
    LET k == slf.params.k
        expected_len == Len(ek_pke)
        received_len == PolyBytes12 * k + SeedLen
    IN  IF expected_len # received_len THEN Panic(TypeCheckFailed)
        ELSE IF Len(ek_pke) < SeedLen THEN Panic(SplitOutOfRange)
        ELSE
        LET t_hat_bytes == SubSeq(ek_pke, 1, Len(ek_pke) - SeedLen)
            rho == SubSeq(ek_pke, Len(ek_pke) - SeedLen + 1, Len(ek_pke))
            t_hat == decode_vector(t_hat_bytes, k, 12, TRUE)
        IN  IF encode_vector(t_hat, 12) # t_hat_bytes
            THEN Panic(ModulusCheckFailed)
            ELSE
            LET a_hat_t == generate_matrix_from_seed(rho, k, TRUE)
                prf_count == 0
                y == generate_error_vector(r, slf.params.eta_1, prf_count, k)
                e1 == generate_error_vector(r, slf.params.eta_2, prf_count, k)
                e2 == generate_polynomial(r, slf.params.eta_2, prf_count)
                y_hat == vec_ntt(y.v)
            IN  Returned(m, y.nonces \o e1.nonces \o e2.nonces,
                         <<prf_count, prf_count, prf_count>>)

(***************************************************************************)
(* K-PKE decrypt, called by main as _k_pke_decrypt(dk_pke, c).             *)
(***************************************************************************)
CiphertextLengthFailed == "ciphertext cannot be split by the known lengths"

_k_pke_decrypt(slf, dk_pke, c) ==
    LET k == slf.params.k
        c1_len == MsgLen * slf.params.du * k
        c2_len == MsgLen * slf.params.dv
    IN  IF Len(c) # c1_len + c2_len THEN Panic(CiphertextLengthFailed)
        ELSE
        LET c1 == SubSeq(c, 1, c1_len)
            c2 == SubSeq(c, c1_len + 1, c1_len + c2_len)
            u == decompress_vec(decode_vector(c1, k, slf.params.du, FALSE),
                                slf.params.du)
            v == decompress_poly(decode_poly(c2, slf.params.dv), slf.params.dv)
            s_hat == decode_vector(dk_pke, k, 12, TRUE)
            mu == polysub(v, from_ntt_poly(mul_vec_simple(s_hat, vec_ntt(u))))
        IN  Returned(encode_poly(compress_poly(mu, 1), 1), <<>>, <<>>)

(***************************************************************************)
(* The simplified KEM path (keygen, encapsulate, decapsulate) over the     *)
(* module_lwe crate.  The crate draws its randomness from the operating    *)
(* system (seed None); a draw is modelled as the choice of a tape.         *)
(***************************************************************************)
gen_uniform_matrix(tape, k) ==
    Tuple([i \in 1..k |-> Tuple([j \in 1..k |->
        sample_ntt(Absorb(5, <<tape, i, j>>), 0, <<>>)])])

gen_small_vector(tape, tag, k) == Tuple([i \in 1..k |-> cbd(<<tape, tag>>, 1, i)])

gen_binary_poly(tape) ==
    Tuple([i \in 1..n |-> Bit(Squeeze(Absorb(6, <<tape>>), i), tape % 8)])

\* Polynomial::coeffs: the coefficients without trailing zeros
RECURSIVE coeffs(_)
coeffs(p) ==
    IF p = <<>> \/ p[Len(p)] # 0 THEN p ELSE coeffs(SubSeq(p, 1, Len(p) - 1))

\* Vec::resize(len, 0)
resize(v, len) == Tuple([i \in 1..len |-> IF i <= Len(v) THEN v[i] ELSE 0])

transpose(m) == Tuple([i \in DOMAIN m |-> Tuple([j \in DOMAIN m |-> m[j][i]])])

mlwe_encrypt(a, t, m, tape) ==
    LET k == Len(t)
        r == gen_small_vector(tape, 1, k)
        e1 == gen_small_vector(tape, 2, k)
        e2 == gen_small_vector(tape, 3, 1)[1]
        scaled == Tuple([i \in 1..n |-> (m[i] * ((q + 1) \div 2)) % q])
    IN  <<add_vec(mul_mat_vec_simple(transpose(a), r), e1),
          polyadd(polyadd(mul_vec_simple(t, r), e2), scaled)>>

mlwe_decrypt(sk, u, v) ==
    LET noisy == polysub(v, mul_vec_simple(sk, u))
    IN  coeffs(Tuple([i \in 1..n |->
            IF 4 * noisy[i] > q /\ 4 * noisy[i] < 3 * q THEN 1 ELSE 0]))

keygen(slf, tape) ==
    LET a == gen_uniform_matrix(tape, slf.params.k)
        s == gen_small_vector(tape, 1, slf.params.k)
        e == gen_small_vector(tape, 2, slf.params.k)
        b == add_vec(mul_mat_vec_simple(a, s), e)
    IN  <<<<a, b>>, s>>

encapsulate(slf, pk, tape) ==
    LET m == resize(coeffs(gen_binary_poly(tape)), slf.params.n)
        ct == mlwe_encrypt(pk[1], pk[2], m, tape)
        k == hash_h(m)
    IN  <<k, ct>>

decapsulate(slf, sk, ct) ==
    LET m == resize(mlwe_decrypt(sk, ct[1], ct[2]), slf.params.n)
    IN  hash_h(m)

(***************************************************************************)
(* MLKEM::new and MLKEM::set_drbg_seed.                                    *)
(***************************************************************************)
new(params) == [params |-> params, drbg |-> None]

set_drbg_seed(slf, seed) ==
    [slf EXCEPT !.drbg = [seed |-> seed, p |-> <<48, 0>>]]

(***************************************************************************)
(* Inputs of the calls.                                                    *)
(***************************************************************************)
\* number of K-PKE seeds d explored
NumSeeds == 2
\* number of random tapes of the module_lwe draws explored
NumTapes == 1

\* seed 1 is the seed of the source's documentation example
seed_of(i) ==
    IF i = 1 THEN <<1, 2, 3, 4>> ELSE Tuple([j \in 1..SeedLen |-> (65 + i) % 256])
Seeds == {seed_of(i) : i \in 1..NumSeeds}
Tapes == 1..NumTapes
DrbgSeeds == {Tuple([i \in 1..48 |-> 66]), Tuple([i \in 1..48 |-> 0])}
Msgs == {Tuple([i \in 1..MsgLen |-> b]) : b \in {165, 255}}
\* a message with the randomness of main, another with a full-length one
MsgRs ==
    {<<Tuple([i \in 1..MsgLen |-> 165]), <<1, 2, 3, 4>>>>,
     <<Tuple([i \in 1..MsgLen |-> 255]), Tuple([i \in 1..SeedLen |-> 7])>>}

ek_len(k) == PolyBytes12 * k + SeedLen
ZeroKey(k) == Tuple([i \in 1..ek_len(k) |-> 0])

\* ek with the c-th 12-bit field of its t_hat region set to val
set_field(ek, c, val) ==
    LET t == SubSeq(ek, 1, Len(ek) - SeedLen)
        rho == SubSeq(ek, Len(ek) - SeedLen + 1, Len(ek))
    IN  encode_poly(Tuple([fields(t, 12) EXCEPT ![c] = val]), 12) \o rho

\* a key and what an adversary or a careless caller makes of it
EkInputs(slf, ek) ==
    LET nf == (8 * (Len(ek) - SeedLen)) \div 12
    IN  { ek,
          SubSeq(ek, 1, Len(ek) - 1),
          ek \o <<0>>,
          SubSeq(ek, 1, 5),
          <<>>,
          SubSeq(ek, Len(ek) - SeedLen + 1, Len(ek)),
          ZeroKey(slf.params.k + 1),
          [ek EXCEPT ![Len(ek)] = (ek[Len(ek)] + 1) % 256],
          set_field(ek, 1, q),
          set_field(ek, 1, q - 1),
          set_field(ek, nf, 4095),
          set_field(ek, nf, q - 1),
          set_field(ek, 2, q + 1) }

NoSession ==
    [kind |-> "none", d |-> None, ek |-> None, dk |-> None,
     pk |-> None, sk |-> None, ct |-> None]

BaseKey == IF held.kind = "pke" THEN held.ek ELSE ZeroKey(self.params.k)

(***************************************************************************)
(* State machine.                                                          *)
(***************************************************************************)
Init ==
    /\ self \in {new(Parameters(k)) : k \in 1..MaxK}
    /\ held = NoSession
    /\ last = [op |-> "new"]
    /\ cz = None

SetDrbgSeed(seed) ==
    /\ self' = set_drbg_seed(self, seed)
    /\ last' = [op |-> "set_drbg_seed", seed |-> seed]
    /\ UNCHANGED <<held, cz>>

KPkeKeygen(d) ==
    LET out == _k_pke_keygen(self, d)
    IN  /\ last' = [op |-> "_k_pke_keygen", d |-> d, out |-> out]
        /\ held' = [NoSession EXCEPT !.kind = "pke", !.d = d,
                                     !.ek = out.ek, !.dk = out.dk]
        /\ UNCHANGED <<self, cz>>

KPkeEncrypt(ek, m, r) ==
    LET out == _k_pke_encrypt(self, ek, m, r)
    IN  /\ last' = [op |-> "_k_pke_encrypt", ek |-> ek, m |-> m, r |-> r,
                    out |-> out]
        /\ held' = IF held.kind = "pke" /\ ek = held.ek /\ out.tag = "returned"
                   THEN [held EXCEPT !.ct = [m |-> m, r |-> r, c |-> out.value]]
                   ELSE held
        /\ UNCHANGED <<self, cz>>

KPkeDecrypt ==
    /\ held.kind = "pke"
    /\ held.ct # None
    /\ last' = [op |-> "_k_pke_decrypt", dk |-> held.dk, c |-> held.ct.c,
                m |-> held.ct.m,
                out |-> _k_pke_decrypt(self, held.dk, held.ct.c)]
    /\ UNCHANGED <<self, held, cz>>

Keygen(tape) ==
    LET out == keygen(self, tape)
    IN  /\ last' = [op |-> "keygen", out |-> out]
        /\ held' = [NoSession EXCEPT !.kind = "kem", !.pk = out[1], !.sk = out[2]]
        /\ UNCHANGED <<self, cz>>

Encapsulate(tape) ==
    /\ held.kind = "kem"
    /\ LET out == encapsulate(self, held.pk, tape)
       IN  /\ last' = [op |-> "encapsulate", out |-> out]
           /\ held' = [held EXCEPT !.ct = [secret |-> out[1], ct |-> out[2]]]
    /\ UNCHANGED <<self, cz>>

Decapsulate ==
    /\ held.kind = "kem"
    /\ held.ct # None
    /\ last' = [op |-> "decapsulate", secret |-> held.ct.secret,
                out |-> decapsulate(self, held.sk, held.ct.ct)]
    /\ UNCHANGED <<self, held, cz>>

\* the keys a caller of the whole interface passes: its own, and that key
\* with a field out of range
CallerKeys == {BaseKey, set_field(BaseKey, 1, q)}

Next ==
    \/ \E seed \in DrbgSeeds : SetDrbgSeed(seed)
    \/ \E d \in Seeds : KPkeKeygen(d)
    \/ \E ek \in CallerKeys, m \in Msgs : KPkeEncrypt(ek, m, <<1, 2, 3, 4>>)
    \/ KPkeDecrypt
    \/ \E tape \in Tapes : Keygen(tape)
    \/ \E tape \in Tapes : Encapsulate(tape)
    \/ Decapsulate

Spec == Init /\ [][Next]_vars

(***************************************************************************)
(* The validation of _k_pke_encrypt under every key of EkInputs.           *)
(***************************************************************************)
NextValidate ==
    \/ \E d \in Seeds : KPkeKeygen(d)
    \/ \E ek \in EkInputs(self, BaseKey), in \in MsgRs :
           KPkeEncrypt(ek, in[1], in[2])

SpecValidate == Init /\ [][NextValidate]_vars

(***************************************************************************)
(* The compressor on every coefficient and depth: a coefficient x and a    *)
(* depth d are fixed, x is compressed, the result is decompressed.         *)
(***************************************************************************)
Depths == {d \in 1..12 : Pow2(d) < q}

InitCompress ==
    /\ self = new(Parameters(1))
    /\ held = NoSession
    /\ last = [op |-> "new"]
    /\ cz \in {[stage |-> "input", x |-> x, d |-> d, y |-> 0, z |-> 0] :
                 x \in 0..(q - 1), d \in Depths}

CompressStep ==
    /\ cz.stage = "input"
    /\ cz' = [cz EXCEPT !.stage = "compressed", !.y = compress(cz.x, cz.d)]
    /\ UNCHANGED <<self, held, last>>

DecompressStep ==
    /\ cz.stage = "compressed"
    /\ cz' = [cz EXCEPT !.stage = "decompressed", !.z = decompress(cz.y, cz.d)]
    /\ UNCHANGED <<self, held, last>>

NextCompress == CompressStep \/ DecompressStep

SpecCompress == InitCompress /\ [][NextCompress]_vars

\* magnitude of the minimal-absolute-value residue of a - b modulo q
residue(a, b) ==
    LET r == (a - b) % q IN IF r <= q - r THEN r ELSE q - r

(***************************************************************************)
(* Properties.                                                             *)
(***************************************************************************)
IsEncrypt == last.op = "_k_pke_encrypt"
IsKeygen == last.op = "_k_pke_keygen"
Panicked(msg) == last.out.tag = "panic" /\ last.out.msg = msg
Distinct(seq) == \A i, j \in DOMAIN seq : i # j => seq[i] # seq[j]
t_hat_region(ek) == SubSeq(ek, 1, Len(ek) - SeedLen)

\* C1: K-PKE round trip.  Decrypting, with the dk of a key pair of
\* _k_pke_keygen, what _k_pke_encrypt returned for a message m under the ek
\* of that pair returns exactly m.
C1_RoundTrip ==
    last.op = "_k_pke_decrypt" =>
        last.out.tag = "returned" /\ last.out.value = last.m

\* C3: length validation.  _k_pke_encrypt fails at the length check if and
\* only if len(ek) # 384 * k + 32, and a key shorter than the 32 bytes of
\* rho fails at that check and at nothing else.
C3_LengthValidation ==
    IsEncrypt =>
        /\ Panicked(TypeCheckFailed) <=>
               Len(last.ek) # PolyBytes12 * self.params.k + SeedLen
        /\ Len(last.ek) < SeedLen => Panicked(TypeCheckFailed)

\* C3 witness: a key shorter than 32 bytes was passed and failed the
\* length check.
C3_ShortKeyRejected ==
    /\ IsEncrypt
    /\ Len(last.ek) > 0
    /\ Len(last.ek) < SeedLen
    /\ Panicked(TypeCheckFailed)

\* C4: canonical-key validation.  For a key of the right length,
\* _k_pke_encrypt fails at the modulus check exactly when re-encoding the
\* reduced decoding of the t_hat region differs from it, that is exactly
\* when some 12-bit field is >= q.
C4_CanonicalValidation ==
    IsEncrypt /\ Len(last.ek) = PolyBytes12 * self.params.k + SeedLen =>
        LET bytes == t_hat_region(last.ek)
            f == fields(bytes, 12)
            reencoded ==
                encode_vector(decode_vector(bytes, self.params.k, 12, TRUE), 12)
        IN  /\ Panicked(ModulusCheckFailed) <=> reencoded # bytes
            /\ Panicked(ModulusCheckFailed) <=> \E c \in DOMAIN f : f[c] >= q
            /\ (\A c \in DOMAIN f : f[c] < q) => last.out.tag = "returned"

\* C4 witness: a key of the right length whose first field is exactly q
\* was rejected at the modulus check.
C4_FieldEqualQRejected ==
    /\ IsEncrypt
    /\ Len(last.ek) = PolyBytes12 * self.params.k + SeedLen
    /\ fields(t_hat_region(last.ek), 12)[1] = q
    /\ Panicked(ModulusCheckFailed)

\* C5: typed errors.  Every validation failure of _k_pke_encrypt reaches
\* the caller as an error value; no input ends the call in a panic.
C5_NoPanic == IsEncrypt => last.out.tag # "panic"

\* what _k_pke_encrypt is to return for a valid key: c1 || c2
intended_ciphertext(slf, ek, m, r) ==
    LET k == slf.params.k
        t_hat == decode_vector(t_hat_region(ek), k, 12, TRUE)
        rho == SubSeq(ek, Len(ek) - SeedLen + 1, Len(ek))
        a_hat_t == generate_matrix_from_seed(rho, k, TRUE)
        y == generate_error_vector(r, slf.params.eta_1, 0, k)
        e1 == generate_error_vector(r, slf.params.eta_2, 0, k)
        e2 == generate_polynomial(r, slf.params.eta_2, 0)
    IN  k_pke_ciphertext(slf, t_hat, a_hat_t, vec_ntt(y.v), e1.v, e2.v, m)

\* C6: the ciphertext.  For a valid key _k_pke_encrypt returns c1 || c2,
\* the encoded compressed u and v, of 32 * du * k + 32 * dv bytes, and not
\* the message it was given.
C6_Ciphertext ==
    IsEncrypt /\ last.out.tag = "returned" =>
        /\ last.out.value = intended_ciphertext(self, last.ek, last.m, last.r)
        /\ Len(last.out.value) =
               MsgLen * self.params.du * self.params.k + MsgLen * self.params.dv
        /\ last.out.value # last.m

\* C7: every key pair of _k_pke_keygen is well-formed (ek of 384 * k + 32
\* bytes ending in the rho of hash_g(d || k), a canonical t_hat region, dk
\* of 384 * k bytes) and _k_pke_encrypt never rejects such an ek.
C7_KeygenWellFormed ==
    /\ IsKeygen =>
        LET ek == last.out.ek
            k == self.params.k
            f == fields(t_hat_region(ek), 12)
        IN  /\ Len(ek) = PolyBytes12 * k + SeedLen
            /\ SubSeq(ek, Len(ek) - SeedLen + 1, Len(ek))
                   = hash_g(last.d \o <<k>>)[1]
            /\ \A c \in DOMAIN f : f[c] < q
            /\ Len(last.out.dk) = PolyBytes12 * k
            /\ \A in \in MsgRs :
                   _k_pke_encrypt(self, ek, in[1], in[2]).tag = "returned"
    /\ IsEncrypt /\ held.kind = "pke" /\ last.ek = held.ek =>
           last.out.tag = "returned"

\* C7 witness: _k_pke_encrypt was called with the ek of the key pair
\* _k_pke_keygen returned for a rank 2 parameter set, and accepted it.
C7_KeygenKeyAccepted ==
    /\ IsEncrypt
    /\ self.params.k = 2
    /\ held.kind = "pke"
    /\ last.ek = held.ek
    /\ held.ek = _k_pke_keygen(self, held.d).ek
    /\ last.out.tag = "returned"

\* C8: determinism of _k_pke_keygen.  Whatever was called before, and
\* whatever the DRBG of the instance holds, the key pair returned for a seed
\* d is the one a fresh instance of the same parameter set returns for d.
C8_KeygenDeterministic ==
    IsKeygen =>
        LET fresh == _k_pke_keygen(new(self.params), last.d)
        IN  last.out.ek = fresh.ek /\ last.out.dk = fresh.dk

\* C8 witness: _k_pke_keygen was called on an instance whose DRBG had been
\* seeded, for the seed of the documentation example.
C8_KeygenAfterDrbgSeed ==
    /\ IsKeygen
    /\ self.drbg # None
    /\ last.d = seed_of(1)

\* C9: compression error bound as stated.  The residue of
\* decompress(compress(x, d), d) - x is at most q / 2^(d+1).
C9_ErrorBound ==
    cz.stage = "decompressed" =>
        residue(cz.z, cz.x) * Pow2(cz.d + 1) <= q

\* C9 amended: the residue of decompress(compress(x, d), d) - x is at most
\* q / 2^(d+1) rounded to the nearest integer (half up).
C9_ErrorBoundRounded ==
    cz.stage = "decompressed" =>
        residue(cz.z, cz.x) <= (2 * q + Pow2(cz.d + 1)) \div Pow2(cz.d + 2)

\* C9 witness: x = 1658 at depth 8 comes back 7 away, above q / 2^9.
C9_DepthEightOffBySeven ==
    /\ cz.stage = "decompressed"
    /\ cz.d = 8
    /\ cz.x = 1658
    /\ residue(cz.z, cz.x) = 7

\* C10: nonce discipline.  Within one _k_pke_keygen call the 2k sampled
\* polynomials, and within one _k_pke_encrypt call the 2k+1, use pairwise
\* distinct nonces that advance by one per polynomial, and no two sampling
\* calls start from the same nonce.
C10_NonceDiscipline ==
    /\ IsKeygen =>
        /\ last.out.nonces = Tuple([i \in 1..(2 * self.params.k) |-> i - 1])
        /\ Distinct(last.out.starts)
    /\ IsEncrypt /\ last.out.tag = "returned" =>
        /\ last.out.nonces = Tuple([i \in 1..(2 * self.params.k + 1) |-> i - 1])
        /\ Distinct(last.out.starts)

====
